---- MODULE Spec2Model ----
(***************************************************************************)
(* Primary-monitor reassignment of wmutil (src/src/lib.rs).                *)
(*                                                                         *)
(* The program is set_primary_monitor and its wrapper Monitor::set_primary.*)
(* The operating system's display configuration is the environment: the    *)
(* live layout (what GetMonitorInfoW reports), the configuration store     *)
(* written by ChangeDisplaySettingsExW(name, devmode, UPDATEREGISTRY |     *)
(* NORESET), and the final ChangeDisplaySettingsExW(NULL, NULL) that makes *)
(* the stored configuration live.  Every OS call may report failure.       *)
(*                                                                         *)
(* A monitor's device name identifies it (names are unique among the       *)
(* enumerated monitors); names are the numbers 1..N in enumeration order,  *)
(* and 0 is a name no monitor has.                                         *)
(***************************************************************************)
EXTENDS Integers, Sequences, FiniteSets

\* ---- bounds -------------------------------------------------------------
MaxMonitors == 2
MaxCalls == 2
\* width in bits of the signed coordinate type (i32 in the source, scaled)
CoordBits == 16

\* ---- the coordinate type -------------------------------------------------
Modulus == 2 ^ CoordBits
MinCoord == -(2 ^ (CoordBits - 1))
MaxCoord == (2 ^ (CoordBits - 1)) - 1

Overflows(v) == v < MinCoord \/ v > MaxCoord

\* two's complement wrap-around of a result that left the range
Wrap(v) == ((v - MinCoord) % Modulus) + MinCoord

Origin == <<0, 0>>

\* positions a non-primary monitor starts at: an ordinary one and the corner
\* of the coordinate range
StartPositions == {<<1920, 1080>>, <<MaxCoord, MinCoord>>}

\* ---- status codes and flags ----------------------------------------------
DISP_CHANGE_SUCCESSFUL == 0

\* statuses of the finalizing call: successful, restart required, failed
StatusCodes == {DISP_CHANGE_SUCCESSFUL, 1, -1}

\* statuses of a per-monitor stage call: successful, failed
StageStatusCodes == {DISP_CHANGE_SUCCESSFUL, -1}

CDS_OTHER_FLAGS_WITH_PRIMARY == {"CDS_SET_PRIMARY", "CDS_UPDATEREGISTRY", "CDS_NORESET"}

\* flags of the stage call of a monitor that is not the target
CDS_OTHER_FLAGS == {"CDS_UPDATEREGISTRY", "CDS_NORESET"}

\* flags of the stage call of the target
CDS_THIS_FLAGS == {"CDS_SET_PRIMARY", "CDS_UPDATEREGISTRY", "CDS_NORESET"}

\* ---- state ---------------------------------------------------------------
VARIABLES
    all_monitors,     \* names of the attached monitors, in enumeration order
    active,           \* name -> live position (rcMonitor.left, rcMonitor.top)
    registry,         \* name -> position in the configuration store
    overflow_checks,  \* build profile: arithmetic overflow panics or wraps
    pc,               \* "idle", "others", "this", "apply"
    via,              \* "function" or "method": who was called
    display_name,     \* argument of the invocation
    i,                \* index of the loop over all_monitors
    x_offset,
    y_offset,
    log,              \* DisplayConfigService calls of the invocation
    outcome,          \* result of set_primary_monitor: "true", "false" or an error
    returned,         \* what the caller of the entry point receives
    calls,            \* invocations started
    pre,              \* live layout when the invocation started
    prev              \* the invocation before: target, layout, outcome

vars == <<all_monitors, active, registry, overflow_checks, pc, via,
          display_name, i, x_offset, y_offset, log, outcome, returned,
          calls, pre, prev>>

Errors == {"MonitorNotFound", "ModeReadFailed", "Overflow"}

N == Len(all_monitors)

\* ---- pure helpers of set_primary_monitor -----------------------------------
first_match_or_first(monitors, name) ==
    IF \E k \in 1..Len(monitors) : monitors[k] = name
    THEN CHOOSE k \in 1..Len(monitors) :
            /\ monitors[k] = name
            /\ \A j \in 1..(k - 1) : monitors[j] # name
    ELSE 1

\* the search loop: index of the first monitor with the name, 0 for none
find_monitor(monitors, name) ==
    IF \E k \in 1..Len(monitors) : monitors[k] = name
    THEN CHOOSE k \in 1..Len(monitors) :
            /\ monitors[k] = name
            /\ \A j \in 1..(k - 1) : monitors[j] # name
    ELSE 0

never_primary(this_x, this_y) == FALSE

\* the short-circuit test
already_primary(this_x, this_y) == this_x = 0 /\ this_y = 0

always_ok(result) == TRUE

\* interpretation of the finalizing call's status
commit_ok(result) == result = DISP_CHANGE_SUCCESSFUL

\* Monitor::set_primary discards the value of set_primary_monitor and
\* returns Ok(()); a panic unwinds through it
method_result(o) == IF o \in {"true", "false"} THEN "None" ELSE o

Returned(v, o) == IF v = "method" THEN method_result(o) ELSE o

ReadEntry(name, ok) ==
    [op |-> "read_mode", name |-> name, pos |-> Origin, flags |-> {},
     status |-> IF ok THEN 1 ELSE 0]

StageEntry(name, pos, flags, status) ==
    [op |-> "stage", name |-> name, pos |-> pos, flags |-> flags,
     status |-> status]

CommitEntry(status) ==
    [op |-> "commit", name |-> 0, pos |-> Origin, flags |-> {},
     status |-> status]

\* ---- initial states --------------------------------------------------------
Layouts(n) ==
    {f \in [1..n -> {Origin} \cup StartPositions] :
        /\ Cardinality({m \in 1..n : f[m] = Origin}) = 1
        /\ \A a, b \in 1..n : a # b => f[a] # f[b]}

Init ==
    /\ \E n \in 1..MaxMonitors :
          /\ all_monitors = [k \in 1..n |-> k]
          /\ active \in Layouts(n)
    /\ registry = active
    /\ overflow_checks \in BOOLEAN
    /\ pc = "idle"
    /\ via = "function"
    /\ display_name = 0
    /\ i = 0
    /\ x_offset = 0
    /\ y_offset = 0
    /\ log = <<>>
    /\ outcome = "none"
    /\ returned = "none"
    /\ calls = 0
    /\ pre = active
    /\ prev = [target |-> 0, pre |-> active, outcome |-> "none"]

\* ---- actions ---------------------------------------------------------------
\* the invocation ends with outcome o; its locals are dropped
Finish(o) ==
    /\ pc' = "idle"
    /\ outcome' = o
    /\ returned' = Returned(via', o)
    /\ i' = 0
    /\ x_offset' = 0
    /\ y_offset' = 0

\* set_primary_monitor up to the loop: enumeration, search, assertion,
\* short-circuit, offsets
Begin(name, v) ==
    /\ pc = "idle"
    /\ calls < MaxCalls
    /\ calls' = calls + 1
    /\ prev' = [target |-> display_name, pre |-> pre, outcome |-> outcome]
    /\ pre' = active
    /\ via' = v
    /\ display_name' = name
    /\ log' = <<>>
    /\ UNCHANGED <<all_monitors, active, registry, overflow_checks>>
    /\ LET m == find_monitor(all_monitors, name) IN
       IF m = 0
       THEN Finish("MonitorNotFound")
       ELSE LET this_x == active[all_monitors[m]][1]
                this_y == active[all_monitors[m]][2]
            IN
            IF already_primary(this_x, this_y)
            THEN Finish("true")
            ELSE IF overflow_checks /\ (Overflows(-this_x) \/ Overflows(-this_y))
            THEN Finish("Overflow")
            ELSE /\ x_offset' = Wrap(-this_x)
                 /\ y_offset' = Wrap(-this_y)
                 /\ i' = 1
                 /\ pc' = "others"
                 /\ UNCHANGED <<outcome, returned>>

\* the exported function
set_primary_monitor(name) == Begin(name, "function")

\* the method of a Monitor value obtained from an enumeration
Monitor_set_primary(m) ==
    /\ m \in 1..N
    /\ Begin(all_monitors[m], "method")

\* one iteration of the loop over all_monitors
StageOther ==
    /\ pc = "others"
    /\ i <= N
    /\ UNCHANGED <<all_monitors, active, overflow_checks, via, display_name,
                   calls, pre, prev>>
    /\ LET name == all_monitors[i] IN
       IF name = display_name
       THEN /\ i' = i + 1
            /\ pc' = IF i + 1 > N THEN "this" ELSE "others"
            /\ UNCHANGED <<registry, log, outcome, returned, x_offset, y_offset>>
       ELSE \/ \* get_dev_mode fails: unwrap panics
               /\ log' = Append(log, ReadEntry(name, FALSE))
               /\ Finish("ModeReadFailed")
               /\ UNCHANGED registry
            \/ \* get_dev_mode succeeds
               LET new_x == active[name][1] + x_offset
                   new_y == active[name][2] + y_offset
               IN
               IF overflow_checks /\ (Overflows(new_x) \/ Overflows(new_y))
               THEN /\ log' = Append(log, ReadEntry(name, TRUE))
                    /\ Finish("Overflow")
                    /\ UNCHANGED registry
               ELSE \E status \in StageStatusCodes :
                    LET p == <<Wrap(new_x), Wrap(new_y)>> IN
                    /\ log' = log \o <<ReadEntry(name, TRUE),
                                       StageEntry(name, p, CDS_OTHER_FLAGS, status)>>
                    /\ registry' = IF status = DISP_CHANGE_SUCCESSFUL
                                   THEN [registry EXCEPT ![name] = p]
                                   ELSE registry
                    /\ i' = i + 1
                    /\ pc' = IF i + 1 > N THEN "this" ELSE "others"
                    /\ UNCHANGED <<outcome, returned, x_offset, y_offset>>

\* the target's own record
StageThis ==
    /\ pc = "this"
    /\ UNCHANGED <<all_monitors, active, overflow_checks, via, display_name,
                   calls, pre, prev>>
    /\ \/ /\ log' = Append(log, ReadEntry(display_name, FALSE))
          /\ Finish("ModeReadFailed")
          /\ UNCHANGED registry
       \/ \E status \in StageStatusCodes :
          /\ log' = log \o <<ReadEntry(display_name, TRUE),
                             StageEntry(display_name, Origin, CDS_THIS_FLAGS, status)>>
          /\ registry' = IF status = DISP_CHANGE_SUCCESSFUL
                         THEN [registry EXCEPT ![display_name] = Origin]
                         ELSE registry
          /\ pc' = "apply"
          /\ UNCHANGED <<outcome, returned, i, x_offset, y_offset>>

\* the finalizing call and the interpretation of its status
Commit ==
    /\ pc = "apply"
    /\ UNCHANGED <<all_monitors, registry, overflow_checks, via, display_name,
                   calls, pre, prev>>
    /\ \E result \in StatusCodes :
          /\ log' = Append(log, CommitEntry(result))
          /\ active' = IF result = DISP_CHANGE_SUCCESSFUL THEN registry ELSE active
          /\ Finish(IF commit_ok(result) THEN "true" ELSE "false")

Next ==
    \/ \E name \in 0..MaxMonitors : set_primary_monitor(name)
    \/ \E m \in 1..MaxMonitors : Monitor_set_primary(m)
    \/ StageOther
    \/ StageThis
    \/ Commit

Spec == Init /\ [][Next]_vars

\* ---- vocabulary of the properties ---------------------------------------------
\* an invocation has ended and nothing else has started
Done == pc = "idle" /\ calls > 0

TargetExists == \E k \in 1..N : all_monitors[k] = display_name

IsWrite(e) == e.op \in {"stage", "commit"}

\* the stage and commit calls of the invocation, in order
WriteCalls == SelectSeq(log, IsWrite)

IsOther(name) == name # display_name

\* the monitors that are not the target, in enumeration order
Others == SelectSeq(all_monitors, IsOther)

CallFailed(e) ==
    \/ e.op = "read_mode" /\ e.status = 0
    \/ e.op = "stage" /\ e.status # DISP_CHANGE_SUCCESSFUL

\* moving target t of layout l to the origin keeps every coordinate in range
TranslationInRange(l, t) ==
    \A m \in DOMAIN l :
        /\ ~Overflows(l[m][1] - l[t][1])
        /\ ~Overflows(l[m][2] - l[t][2])

\* ---- C1 -----------------------------------------------------------------------
\* C1: an invocation whose target name equals no enumerated monitor's name
\* ends at once in the MonitorNotFound error, with no read_mode, stage or
\* commit call, and leaves the live layout and the configuration store as
\* they were.
C1_NotFoundNoCalls ==
    [][(pc = "idle" /\ calls' = calls + 1 /\ ~TargetExists')
          => /\ pc' = "idle"
             /\ outcome' = "MonitorNotFound"
             /\ returned' = "MonitorNotFound"
             /\ log' = <<>>
             /\ active' = active
             /\ registry' = registry]_vars

C1_Witness ==
    /\ Done
    /\ ~TargetExists
    /\ outcome = "MonitorNotFound"
    /\ log = <<>>
    /\ N >= 2

\* ---- C2 -----------------------------------------------------------------------
\* C2: an invocation whose target exists and is at (0, 0) returns true at
\* once, with no stage and no commit call for any monitor, and leaves every
\* position and the configuration store unchanged.
C2_AlreadyPrimaryNoWrites ==
    [][(pc = "idle" /\ calls' = calls + 1 /\ TargetExists'
          /\ active[display_name'] = Origin)
          => /\ pc' = "idle"
             /\ outcome' = "true"
             /\ log' = <<>>
             /\ active' = active
             /\ registry' = registry]_vars

C2_Witness ==
    /\ Done
    /\ TargetExists
    /\ pre[display_name] = Origin
    /\ outcome = "true"
    /\ log = <<>>
    /\ active = pre
    /\ N >= 2

\* ---- C3 -----------------------------------------------------------------------
\* C3: after set_primary(target) has returned for an existing target, the
\* target's position is exactly (0, 0).  Stated for an invocation that
\* returned true, the reading most favourable to the code.
C3_TargetAtOrigin ==
    (Done /\ TargetExists /\ outcome = "true")
        => active[display_name] = Origin

\* ---- C4 -----------------------------------------------------------------------
\* C4: after a successful reassignment every non-target monitor with
\* original position (x, y) is at (x - tx, y - ty), (tx, ty) being the
\* target's original position.  Stated for layouts in which no translated
\* coordinate leaves the coordinate range.
C4_OthersTranslated ==
    (Done /\ TargetExists /\ outcome = "true" /\ TranslationInRange(pre, display_name))
        => \A m \in 1..N :
              m # display_name =>
                 active[m] = <<pre[m][1] - pre[display_name][1],
                               pre[m][2] - pre[display_name][2]>>

\* ---- C5 -----------------------------------------------------------------------
\* C5: set_primary(target) twice in a row returns true both times and the
\* second call makes no stage and no commit call.  Stated for a first call
\* that returned true.
C5_SecondCallNoWrites ==
    (Done /\ calls >= 2 /\ TargetExists /\ prev.target = display_name
          /\ prev.outcome = "true")
        => (outcome = "true" /\ WriteCalls = <<>>)

\* ---- C6 -----------------------------------------------------------------------
\* C6: with A at (0, 0) and B elsewhere, set_primary(B) leaves B at (0, 0)
\* and A at (-bx, -by), and set_primary(A) after it restores every position.
\* Stated for two calls that both returned true and for layouts in which no
\* translated coordinate leaves the coordinate range.
C6_RoundTrip ==
    (Done /\ calls >= 2 /\ TargetExists
          /\ prev.target \in 1..N /\ prev.target # display_name
          /\ prev.pre[display_name] = Origin
          /\ TranslationInRange(prev.pre, prev.target)
          /\ prev.outcome = "true" /\ outcome = "true")
        => /\ pre[prev.target] = Origin
           /\ pre[display_name] = <<0 - prev.pre[prev.target][1],
                                    0 - prev.pre[prev.target][2]>>
           /\ active = prev.pre

\* ---- C7 -----------------------------------------------------------------------
\* C7: an invocation that reached the finalizing call returns true when
\* that call's status is the success code and false for every other status,
\* never an error.
C7_CommitStatusIsResult ==
    (Done /\ log # <<>> /\ log[Len(log)].op = "commit")
        => outcome = IF log[Len(log)].status = DISP_CHANGE_SUCCESSFUL
                     THEN "true" ELSE "false"

C7_Witness ==
    /\ Done
    /\ log # <<>>
    /\ log[Len(log)].op = "commit"
    /\ log[Len(log)].status # DISP_CHANGE_SUCCESSFUL
    /\ outcome = "false"

\* ---- C8 -----------------------------------------------------------------------
\* C8: Monitor.set_primary() hands the outcome of set_primary_monitor to
\* its caller: true, false or the error.
C8_MethodReturnsOutcome ==
    (Done /\ via = "method") => returned = outcome

\* ---- C9 -----------------------------------------------------------------------
\* C9: a failed read_mode or a stage call with a non-success status is the
\* last call of the invocation, which ends in an error and not in true or
\* false.
C9_FailureAborts ==
    \A k \in 1..Len(log) :
        CallFailed(log[k]) =>
            /\ k = Len(log)
            /\ pc = "idle"
            /\ outcome \in Errors

\* ---- C10 ----------------------------------------------------------------------
\* C10: in an invocation that does not short-circuit the stage and commit
\* calls are, in this order: one stage per non-target monitor with the flags
\* update-registry and no-reset only, one stage of the target at (0, 0) with
\* the primary flag added, one commit.  At every moment the calls made so far
\* are a prefix of that sequence, and an invocation that returns true or
\* false has made all of them.
C10_CallOrder ==
    (calls > 0 /\ TargetExists /\ pre[display_name] # Origin)
        => LET w == WriteCalls
               n == Len(Others)
           IN
           /\ Len(w) <= n + 2
           /\ \A k \in 1..Len(w) :
                 /\ k <= n
                       => /\ w[k].op = "stage"
                          /\ w[k].name = Others[k]
                          /\ w[k].flags = {"CDS_UPDATEREGISTRY", "CDS_NORESET"}
                 /\ k = n + 1
                       => /\ w[k].op = "stage"
                          /\ w[k].name = display_name
                          /\ w[k].pos = Origin
                          /\ w[k].flags =
                                {"CDS_SET_PRIMARY", "CDS_UPDATEREGISTRY", "CDS_NORESET"}
                 /\ k = n + 2 => w[k].op = "commit"
           /\ (pc = "idle" /\ outcome \in {"true", "false"}) => Len(w) = n + 2

C10_Witness ==
    /\ Done
    /\ TargetExists
    /\ pre[display_name] # Origin
    /\ outcome \in {"true", "false"}
    /\ Len(Others) >= 1
    /\ all_monitors[1] = display_name
    /\ Len(WriteCalls) = Len(Others) + 2

====
